---- MODULE Spec2Model ----
(***************************************************************************)
(* QVM_Long_Only.py: a long-only algorithm that ranks a liquid universe by *)
(* quality (ROE), value (FCF yield) and momentum (20-day return), takes    *)
(* the ten best composite ranks and holds each at 10% of the portfolio.    *)
(*                                                                         *)
(* Numbers.  A pipeline cell is either NaN (<<>>) or a number (<<x>>).     *)
(* An average rank can be a half-integer, so every rank column holds       *)
(* TWICE the rank (rank 3.5 is <<7>>).  Portfolio weights are in percent   *)
(* (0.1 is 10).  The built-in factors AverageDollarVolume(20) and          *)
(* Returns(20) are inputs of the table, as the fundamentals are.           *)
(* log.info calls write no program state and are left out.                 *)
(***************************************************************************)
EXTENDS Integers, Sequences, FiniteSets

VARIABLES records, tradable, positions, output, longs, orders,
          num_positions, cur, prev, pc

vars == <<records, tradable, positions, output, longs, orders,
          num_positions, cur, prev, pc>>

-----------------------------------------------------------------------------
\* Bounds of the model
NumFixed == 11
NumVarying == 2
RankN == 4

\* Program constants
MinCap == 50000000
MinPrice == 1
MinVolume == 200000
TopN == 10
LongWeight == 10

Assets == 1 .. (NumFixed + NumVarying)

NaN == << >>
Val(x) == <<x>>
Num(c) == c[1]

OTC == <<"O", "T", "C">>
NYS == <<"N", "Y", "S">>
OTCPK == <<"O", "T", "C", "P", "K">>
NOTC == <<"N", "O", "T", "C">>

-----------------------------------------------------------------------------
\* Comparisons of the pipeline: a comparison with NaN is False.
Gt(c, x) == c /= NaN /\ Num(c) > x

\* str.startswith on a string column; a missing label gives False.
StartsWith(s, p) == Len(s) >= Len(p) /\ SubSeq(s, 1, Len(p)) = p

\* min_liq_univ(): the four screens, and-ed.
mktcap_screen(r) == Gt(r.market_cap, MinCap)
price_screen(r) == Gt(r.close, MinPrice)
volume_screen(r) == Gt(r.dollar_volume, MinVolume)
not_otc(r) == ~StartsWith(r.exchange_id, OTC)

min_liq_univ(recs) ==
    {a \in DOMAIN recs : mktcap_screen(recs[a]) /\ price_screen(recs[a])
                           /\ volume_screen(recs[a]) /\ not_otc(recs[a])}

\* fcf_yield_manual = fcf_per_share / price_close (in hundredths; NaN propagates)
fcf_yield_manual(r) ==
    IF r.fcf_per_share = NaN \/ r.close = NaN \/ r.close = Val(0) THEN NaN
    ELSE Val((Num(r.fcf_per_share) * 100) \div Num(r.close))

-----------------------------------------------------------------------------
\* Factor.rank: the cells that take part are those in the mask with a value;
\* every other cell of the result is NaN.
Missing(col, mask) == {a \in DOMAIN col : a \notin mask \/ col[a] = NaN}
Participants(col, mask) == DOMAIN col \ Missing(col, mask)

\* The sorted row: how many cells sort before the tie group of a, and how
\* many are in it.
Below(col, part, a) == Cardinality({b \in part : Num(col[b]) < Num(col[a])})
Above(col, part, a) == Cardinality({b \in part : Num(col[b]) > Num(col[a])})
Tied(col, part, a) == Cardinality({b \in part : Num(col[b]) = Num(col[a])})

\* A descending rank: method = 'average' with ascending = False.
RankDescending(col, mask) ==
    LET part == Participants(col, mask)
    IN [a \in DOMAIN col |->
          IF a \notin part THEN NaN
          ELSE Val(Above(col, part, a) + (Above(col, part, a) + Tied(col, part, a)) + 1)]

\* A rank with method = 'min': a tie group takes its lowest position.
RankMin(col, mask) ==
    LET part == Participants(col, mask)
    IN [a \in DOMAIN col |->
          IF a \notin part THEN NaN
          ELSE Val(2 * (Below(col, part, a) + 1))]

\* rank(method = 'average', mask), scipy's rankdata: a tie group that starts
\* after `Below` cells and ends at cell `Below + Tied` of the sorted row takes
\* .5 * (end + start + 1); the cell holds twice that.
Rank(col, mask) ==
    LET part == Participants(col, mask)
    IN [a \in DOMAIN col |->
          IF a \notin part THEN NaN
          ELSE LET start == Below(col, part, a)
                   end == start + Tied(col, part, a)
               IN Val(end + start + 1)]

\* An ordinal rank whose sort is not stable: ties in reverse column order.
RankOrdinalDescUnstable(col, mask) ==
    LET part == Participants(col, mask)
    IN [a \in DOMAIN col |->
          IF a \notin part THEN NaN
          ELSE Val(Above(col, part, a)
                   + Cardinality({b \in part : Num(col[b]) = Num(col[a]) /\ b > a}) + 1)]

\* rank(ascending = False, mask), method 'ordinal': the position in the stable
\* (merge) argsort of the negated row, so that tied cells keep their column
\* order (an ordinal rank is a whole number and is not doubled).
RankOrdinalDesc(col, mask) ==
    LET part == Participants(col, mask)
    IN [a \in DOMAIN col |->
          IF a \notin part THEN NaN
          ELSE Val(Above(col, part, a)
                   + Cardinality({b \in part : Num(col[b]) = Num(col[a]) /\ b < a}) + 1)]

\* top(N) with a strict comparison: one name too few.
TopStrict(col, N, mask) ==
    LET r == RankOrdinalDesc(col, mask)
    IN [a \in DOMAIN col |-> r[a] /= NaN /\ Num(r[a]) < N]

\* Factor.top(N, mask) = rank(ascending = False, mask = mask) <= N
Top(col, N, mask) ==
    LET r == RankOrdinalDesc(col, mask)
    IN [a \in DOMAIN col |-> r[a] /= NaN /\ Num(r[a]) <= N]

\* quality + value + momentum, cell by cell; NaN propagates.
Add3(x, y, z) ==
    [a \in DOMAIN x |->
        IF x[a] = NaN \/ y[a] = NaN \/ z[a] = NaN THEN NaN
        ELSE Val(Num(x[a]) + Num(y[a]) + Num(z[a]))]

Column(recs, f) == [a \in DOMAIN recs |-> recs[a][f]]

\* The value rank taken from the manually computed ratio.
ValueManual(recs, univ) ==
    Rank([a \in DOMAIN recs |-> fcf_yield_manual(recs[a])], univ)

\* The rank columns of make_pipeline, each masked by the universe.
Quality(recs, univ) == Rank(Column(recs, "roe"), univ)
Value(recs, univ) == Rank(Column(recs, "fcf_yield"), univ)
Momentum(recs, univ) == Rank(Column(recs, "ret_20"), univ)
Qvm(quality, value, momentum, univ) == Rank(Add3(quality, value, momentum), univ)
Long10(qvm, univ) == Top(qvm, TopN, univ)

\* Pipeline(columns = {...}, screen = min_liq_univ()): a row per screened asset.
Rows(recs, univ, quality, value, momentum, qvm, long_10) ==
    [a \in univ |->
        [mktcap |-> recs[a].market_cap,
         fcf_yield |-> recs[a].fcf_yield,
         fcf_yield_manual |-> fcf_yield_manual(recs[a]),
         roe |-> recs[a].roe,
         ret_20 |-> recs[a].ret_20,
         quality |-> quality[a],
         value |-> value[a],
         momentum |-> momentum[a],
         qvm |-> qvm[a],
         long_10 |-> long_10[a]]]

\* make_pipeline(): each term is computed once, from the terms it is built on.
make_pipeline(recs) ==
    LET WithQvm(univ, quality, value, momentum) ==
            CHOOSE out \in {Rows(recs, univ, quality, value, momentum, qvm, Long10(qvm, univ)) :
                               qvm \in {Qvm(quality, value, momentum, univ)}} : TRUE
        WithUniv(univ) ==
            CHOOSE out \in {WithQvm(univ, quality, value, momentum) :
                               quality \in {Quality(recs, univ)},
                               value \in {Value(recs, univ)},
                               momentum \in {Momentum(recs, univ)}} : TRUE
    IN CHOOSE out \in {WithUniv(univ) : univ \in {min_liq_univ(recs)}} : TRUE

\* A set of assets as an index: ascending by sid.
Min(S) == CHOOSE x \in S : \A y \in S : x <= y

RECURSIVE SetToSeq(_)
SetToSeq(S) ==
    IF S = {} THEN << >>
    ELSE LET m == Min(S) IN <<m>> \o SetToSeq(S \ {m})

\* context.output[context.output['long_10']].index
LongsOf(out) == SetToSeq({a \in DOMAIN out : out[a].long_10})

Range(s) == {s[i] : i \in 1 .. Len(s)}

-----------------------------------------------------------------------------
\* context.portfolio.positions: a dict, iterated in insertion order.  Each
\* entry is [sid, weight]; no sid appears twice.
Held(pos) == {pos[i].sid : i \in 1 .. Len(pos)}
Sids(pos) == [i \in 1 .. Len(pos) |-> pos[i].sid]
WeightOf(pos, s) == (CHOOSE i \in 1 .. Len(pos) : pos[i].sid = s)

Order(s, w) == [sid |-> s, target |-> w]

\* The open test without the can_trade guard.
ShouldOpenNoTradeCheck(security, pos, trad) == security \notin Held(pos)

\* The open test without the membership guard: every tradable long is ordered.
ShouldOpenAlways(security, pos, trad) == security \in trad

\* The open test that also re-opens a long held at another weight.
ShouldOpenOnDrift(security, pos, trad) ==
    /\ security \in trad
    /\ \/ security \notin Held(pos)
       \/ pos[WeightOf(pos, security)].weight /= LongWeight

\* if data.can_trade(security): if security not in my_positions: order
ShouldOpen(security, pos, trad) ==
    security \in trad /\ security \notin Held(pos)

\* The close test without the can_trade guard.
ShouldCloseNoTradeCheck(security, lngs, trad) == security \notin Range(lngs)

\* The close test without the membership guard: every tradable holding is closed.
ShouldCloseAlways(security, lngs, trad) == security \in trad

\* if security not in context.longs and data.can_trade(security): order 0
ShouldClose(security, lngs, trad) ==
    security \notin Range(lngs) /\ security \in trad

\* for security in context.longs: ...
RECURSIVE OpenLoop(_, _, _)
OpenLoop(lngs, pos, trad) ==
    IF lngs = << >> THEN << >>
    ELSE (IF ShouldOpen(Head(lngs), pos, trad)
          THEN <<Order(Head(lngs), LongWeight)>> ELSE << >>)
         \o OpenLoop(Tail(lngs), pos, trad)

\* for security in my_positions: ...
RECURSIVE CloseLoop(_, _, _)
CloseLoop(held, lngs, trad) ==
    IF held = << >> THEN << >>
    ELSE (IF ShouldClose(Head(held), lngs, trad)
          THEN <<Order(Head(held), 0)>> ELSE << >>)
         \o CloseLoop(Tail(held), lngs, trad)

\* The orders one call of rebalance places, in the order it places them.
RebalanceOrders(lngs, pos, trad) ==
    OpenLoop(lngs, pos, trad) \o CloseLoop(Sids(pos), lngs, trad)

\* order_target_percent(security, w), filled in full: a target of 0 removes
\* the position, another target sets its weight (a new position is appended).
ApplyOrder(pos, o) ==
    IF o.target = 0 THEN SelectSeq(pos, LAMBDA e : e.sid /= o.sid)
    ELSE IF o.sid \in Held(pos)
         THEN [pos EXCEPT ![WeightOf(pos, o.sid)].weight = o.target]
         ELSE Append(pos, [sid |-> o.sid, weight |-> o.target])

RECURSIVE ApplyOrders(_, _)
ApplyOrders(pos, ords) ==
    IF ords = << >> THEN pos
    ELSE ApplyOrders(ApplyOrder(pos, Head(ords)), Tail(ords))

-----------------------------------------------------------------------------
\* The inputs of a day.
ScreenedFixed == {3, 6}

FixedRecord(i) ==
    [market_cap |-> IF i = 6 THEN Val(MinCap) ELSE Val(MinCap + i),
     close |-> IF i = 3 THEN Val(MinPrice) ELSE Val(MinPrice + 1),
     dollar_volume |-> IF i = 6 THEN NaN ELSE Val(MinVolume + i),
     exchange_id |-> IF i = 2 THEN NOTC ELSE NYS,
     roe |-> Val(i \div 2),
     fcf_yield |-> Val((NumFixed - i) \div 3),
     ret_20 |-> Val((i \div 2) % 3),
     fcf_per_share |-> Val(i)]

Listed(roe, fcf_yield, ret_20, exchange_id) ==
    [market_cap |-> Val(MinCap + 1), close |-> Val(MinPrice + 1),
     dollar_volume |-> Val(MinVolume + 1), exchange_id |-> exchange_id,
     roe |-> roe, fcf_yield |-> fcf_yield, ret_20 |-> ret_20,
     fcf_per_share |-> Val(1)]

Menu ==
    {Listed(Val(9), Val(9), Val(9), NYS),
     Listed(Val(0), Val(0), Val(0), NYS),
     Listed(NaN, Val(9), Val(9), NYS),
     Listed(Val(9), Val(9), Val(9), OTCPK)}

Tables ==
    {[a \in Assets |-> IF a <= NumFixed THEN FixedRecord(a) ELSE v[a]] :
        v \in [(NumFixed + 1) .. (NumFixed + NumVarying) -> Menu]}

HeldCandidates == {1, 3, NumFixed + NumVarying}
HaltCandidates == {1, 3}
HeldWeights == {LongWeight, LongWeight + 5}

Snapshot(H, w) ==
    LET s == SetToSeq(H) IN [i \in 1 .. Len(s) |-> [sid |-> s[i], weight |-> w[s[i]]]]

\* The weight of a holding plays a part only when it is a long; asset 1 is one
\* in every table, and is drawn at both weights.
Snapshots ==
    {Snapshot(H, w) : H \in SUBSET HeldCandidates,
                      w \in {v \in [HeldCandidates -> HeldWeights] :
                                \A a \in HeldCandidates \ {1} : v[a] = LongWeight}}

NoRun == [ran |-> FALSE, snapshot |-> << >>, longs |-> << >>, orders |-> << >>]
NoOutput == [a \in {} |-> NaN]

Init ==
    /\ records \in Tables
    /\ tradable \in {Assets \ U : U \in SUBSET HaltCandidates}
    /\ positions \in Snapshots
    /\ output = NoOutput
    /\ longs = << >>
    /\ orders = << >>
    /\ num_positions = 0
    /\ cur = NoRun
    /\ prev = NoRun
    /\ pc = "before_open"

\* A small universe, every column of which is drawn in full.
RankCells == {NaN, Val(0), Val(1), Val(2)}

RankChoices ==
    {<<TRUE, c>> : c \in RankCells} \cup {<<FALSE, Val(2)>>, <<FALSE, NaN>>}

RankRecord(i, listed, roe) ==
    Listed(roe,
           IF roe = NaN THEN Val(i) ELSE IF roe = Val(0) THEN NaN ELSE Val(0 - Num(roe)),
           Val(i),
           IF listed THEN NYS ELSE OTCPK)

RankTables ==
    {[a \in Assets |-> IF a <= RankN THEN RankRecord(a, c[a][1], c[a][2])
                       ELSE RankRecord(a, FALSE, Val(2))] :
        c \in [1 .. RankN -> RankChoices]}

InitRank ==
    /\ records \in RankTables
    /\ tradable = {}
    /\ positions = << >>
    /\ output = NoOutput
    /\ longs = << >>
    /\ orders = << >>
    /\ num_positions = 0
    /\ cur = NoRun
    /\ prev = NoRun
    /\ pc = "before_open"

-----------------------------------------------------------------------------
\* before_trading_start: every day before the open.
BeforeTradingStart ==
    /\ pc = "before_open"
    /\ \E out \in {make_pipeline(records)} :
          /\ output' = out
          /\ longs' = LongsOf(out)
    /\ pc' = "open"
    /\ UNCHANGED <<records, tradable, positions, orders, num_positions, cur, prev>>

\* rebalance: at the start of a week, an hour after the open.
Rebalance ==
    /\ pc = "open"
    /\ orders' = RebalanceOrders(longs, positions, tradable)
    /\ prev' = cur
    /\ cur' = [ran |-> TRUE, snapshot |-> positions, longs |-> longs,
               orders |-> RebalanceOrders(longs, positions, tradable)]
    /\ pc' = "ordered"
    /\ UNCHANGED <<records, tradable, positions, output, longs, num_positions>>

\* The execution collaborator fills the day's orders in full.
Fill ==
    /\ pc = "ordered"
    /\ positions' = ApplyOrders(positions, orders)
    /\ pc' = "filled"
    /\ UNCHANGED <<records, tradable, output, longs, orders, num_positions, cur, prev>>

\* record_vars: every day at the close (a day with no rebalance, a day whose
\* orders did not fill, or a day whose orders filled).
RecordVars ==
    /\ pc \in {"open", "ordered", "filled"}
    /\ num_positions' = Len(positions)
    /\ pc' = "closed"
    /\ UNCHANGED <<records, tradable, positions, output, longs, orders, cur, prev>>

\* The next session: orders still open were cancelled at the close.
NextDay ==
    /\ pc = "closed"
    /\ orders' = << >>
    /\ pc' = "before_open"
    /\ UNCHANGED <<records, tradable, positions, output, longs, num_positions, cur, prev>>

Next == BeforeTradingStart \/ Rebalance \/ Fill \/ RecordVars \/ NextDay

\* The algorithm on the tables of Tables, from every snapshot of Snapshots.
Spec == Init /\ [][Next]_vars

\* The algorithm on the tables of RankTables: RankN listed assets whose
\* factor columns are drawn in full, ties and NaN included.
SpecRank == InitRank /\ [][Next]_vars

-----------------------------------------------------------------------------
\* What the properties speak of.
Universe == min_liq_univ(records)
Selection == Range(longs)
HeldBefore == Held(cur.snapshot)
Opens(ords) == {ords[i].sid : i \in {j \in 1 .. Len(ords) : ords[j].target /= 0}}
Closes(ords) == {ords[i].sid : i \in {j \in 1 .. Len(ords) : ords[j].target = 0}}
Ordered(ords) == {ords[i].sid : i \in 1 .. Len(ords)}
EntryOf(pos, s) == pos[WeightOf(pos, s)]
MinOf(x, y) == IF x <= y THEN x ELSE y

\* C1: idempotent rebalance: when a rebalance runs on the positions that the
\* previous rebalance's orders, filled in full, left behind, with the same
\* selection and the same tradability, it places no order at all.
C1_IdempotentRebalance ==
    (/\ pc = "ordered"
     /\ prev.ran
     /\ cur.longs = prev.longs
     /\ cur.snapshot = ApplyOrders(prev.snapshot, prev.orders))
    => orders = << >>

C1_Witness ==
    /\ pc = "ordered"
    /\ prev.ran
    /\ cur.longs = prev.longs
    /\ cur.snapshot = ApplyOrders(prev.snapshot, prev.orders)
    /\ Opens(prev.orders) /= {}
    /\ Closes(prev.orders) /= {}
    /\ tradable /= Assets

\* C2 as stated: a tradable long gets an open order at LongWeight exactly when
\* it is not held or is held at a weight other than LongWeight.
C2_OpenOnDifferentWeight ==
    pc = "ordered" =>
        \A s \in Selection \cap tradable :
            (Order(s, LongWeight) \in Range(orders))
            <=> (\/ s \notin HeldBefore
                 \/ EntryOf(cur.snapshot, s).weight /= LongWeight)

\* C2, amended: an open order is placed for a security exactly when it is a
\* long, tradable and not held; its target is LongWeight whatever the number
\* of longs; a long that is held gets no order, whatever its weight.
C2_OpenRule ==
    pc = "ordered" =>
        /\ \A s \in Assets :
              (s \in Opens(orders))
              <=> (s \in Selection /\ s \in tradable /\ s \notin HeldBefore)
        /\ \A i \in 1 .. Len(orders) :
              orders[i].target /= 0 => orders[i].target = LongWeight
        /\ \A i, j \in 1 .. Len(orders) :
              orders[i].sid = orders[j].sid => i = j
        /\ \A s \in Selection \cap HeldBefore : s \notin Ordered(orders)

C2_Witness ==
    /\ pc = "ordered"
    /\ Len(longs) < TopN
    /\ Opens(orders) /= {}
    /\ \E s \in Selection \cap tradable \cap HeldBefore :
          EntryOf(cur.snapshot, s).weight /= LongWeight

\* C3: a close order (target 0) is placed for a security exactly when it is
\* held, not a long and tradable; a holding that is not a long and cannot be
\* traded gets no order and is still held, at the same weight, after the fill.
C3_CloseRule ==
    /\ pc = "ordered" =>
          \A s \in Assets :
              (s \in Closes(orders))
              <=> (s \in HeldBefore /\ s \notin Selection /\ s \in tradable)
    /\ pc = "filled" =>
          \A s \in HeldBefore :
              (s \notin Selection /\ s \notin tradable) =>
                  /\ s \notin Ordered(orders)
                  /\ s \in Held(positions)
                  /\ EntryOf(positions, s) = EntryOf(cur.snapshot, s)

C3_Witness ==
    /\ pc = "filled"
    /\ Closes(orders) /= {}
    /\ \E s \in HeldBefore : s \notin Selection /\ s \notin tradable
    /\ \E s \in HeldBefore : s \in Selection

\* C4: no order of any kind names a security that cannot be traded, and the
\* rebalance still runs and deals with every other security: each tradable
\* long not held is opened, each tradable holding not a long is closed.
C4_UntradeableSkipped ==
    /\ pc = "open" => ENABLED Rebalance
    /\ pc \in {"ordered", "filled"} =>
          /\ Ordered(orders) \subseteq tradable
          /\ (Selection \cap tradable) \ HeldBefore \subseteq Opens(orders)
          /\ (HeldBefore \cap tradable) \ Selection \subseteq Closes(orders)

C4_Witness ==
    /\ pc = "ordered"
    /\ \E s \in Selection : s \notin tradable /\ s \notin HeldBefore
    /\ \E s \in HeldBefore : s \notin tradable /\ s \notin Selection
    /\ Opens(orders) /= {}
    /\ Closes(orders) /= {}

\* The universe members that have a composite score: all three factors known.
Scored ==
    {a \in Universe : /\ records[a].roe /= NaN
                      /\ records[a].fcf_yield /= NaN
                      /\ records[a].ret_20 /= NaN}

\* C5 as stated: the longs are in the universe and number min(TopN, |universe|).
C5_SizeByUniverse ==
    pc = "open" =>
        /\ Selection \subseteq Universe
        /\ Len(longs) = MinOf(TopN, Cardinality(Universe))

\* C5, amended: the longs are distinct members of the universe and number
\* min(TopN, the number of universe members whose three factors are all
\* known): a member with a NaN factor has no composite rank and is never a long.
C5_SelectionLaw ==
    pc = "open" =>
        /\ Selection \subseteq Scored
        /\ Cardinality(Selection) = Len(longs)
        /\ Len(longs) = MinOf(TopN, Cardinality(Scored))

C5_Witness ==
    /\ pc = "open"
    /\ Scored /= Universe
    /\ Cardinality(Universe) >= TopN
    /\ Len(longs) < TopN
    /\ Len(longs) > 0

\* The rank columns of the output, by the input column each ranks.
FactorOf == [quality |-> "roe", value |-> "fcf_yield", momentum |-> "ret_20"]
OutColumn(c) == [a \in DOMAIN output |-> output[a][c]]
Ranked(col) == {a \in DOMAIN col : col[a] /= NaN}
SumOver(f, S) ==
    LET RECURSIVE Sum(_)
        Sum(T) == IF T = {} THEN 0
                  ELSE LET m == Min(T) IN Num(f[m]) + Sum(T \ {m})
    IN Sum(S)

\* C6: in each factor's rank column (cells hold twice the rank) a cell has a
\* rank exactly when the asset is in the universe and its factor is known; a
\* rank lies in 1 .. n for n ranked cells; a higher factor has a higher rank;
\* a tie group has one rank, the mean of the positions it fills; the ranks sum
\* to n(n+1)/2; outside the universe there is no rank (no row, and NaN in the
\* factor's own column).
C6_AverageRank ==
    pc = "open" =>
        \A c \in DOMAIN FactorOf :
            LET raw == Column(records, FactorOf[c])
                rk == OutColumn(c)
                part == {a \in Universe : raw[a] /= NaN}
                n == Cardinality(part)
            IN /\ DOMAIN rk = Universe
               /\ Ranked(rk) = part
               /\ \A a \in Assets \ Universe :
                     Rank(raw, Universe)[a] = NaN
               /\ \A a \in part : 2 * 1 <= Num(rk[a]) /\ Num(rk[a]) <= 2 * n
               /\ \A a, b \in part :
                     /\ Num(raw[a]) < Num(raw[b]) => Num(rk[a]) < Num(rk[b])
                     /\ Num(raw[a]) = Num(raw[b]) => rk[a] = rk[b]
               /\ \A a \in part :
                     LET lower == Cardinality({b \in part : Num(raw[b]) < Num(raw[a])})
                         group == {b \in part : raw[b] = raw[a]}
                         positions_sum ==
                             SumOver([i \in 1 .. n |-> Val(i)],
                                     (lower + 1) .. (lower + Cardinality(group)))
                     IN Cardinality(group) * Num(rk[a]) = 2 * positions_sum
               /\ SumOver(rk, part) = n * (n + 1)

C6_Witness ==
    /\ pc = "open"
    /\ Assets \ Universe /= {}
    /\ \E a \in Universe : records[a].roe = NaN
    /\ \E a, b, d \in Universe :
          /\ a < b
          /\ records[a].roe /= NaN
          /\ records[a].roe = records[b].roe
          /\ records[d].roe /= NaN
          /\ Num(records[d].roe) < Num(records[a].roe)
          /\ output[a].quality = Val(5)
          /\ output[b].quality = Val(5)

\* The tables that differ from the day's table in fcf_per_share alone.
OtherFcfPerShare ==
    {[a \in Assets |-> NaN],
     [a \in Assets |-> Val(0)],
     [a \in Assets |-> Val(NumFixed + NumVarying - a)]}
OtherTables ==
    {[a \in Assets |-> [records[a] EXCEPT !.fcf_per_share = f[a]]] :
        f \in OtherFcfPerShare}
Trading(out) ==
    [a \in DOMAIN out |->
        <<out[a].quality, out[a].value, out[a].momentum, out[a].qvm, out[a].long_10>>]

\* C7: the first rebalance of a table: a table that differs only in
\* fcf_per_share gives the same rank columns, the same composite rank, the
\* same longs and the same orders.
C7_ManualValueUnused ==
    (pc = "ordered" /\ ~prev.ran) =>
        \A t \in OtherTables :
            LET out == make_pipeline(t)
            IN /\ Trading(out) = Trading(output)
               /\ LongsOf(out) = longs
               /\ RebalanceOrders(LongsOf(out), cur.snapshot, tradable) = orders

C7_Witness ==
    /\ pc = "ordered"
    /\ ~prev.ran
    /\ orders /= << >>
    /\ \E t \in OtherTables : \E a \in Universe :
          /\ fcf_yield_manual(t[a]) /= output[a].fcf_yield_manual
          /\ fcf_yield_manual(t[a]) /= NaN
          /\ output[a].fcf_yield_manual /= NaN

NoTies(col) == \A a, b \in Ranked(col) : col[a] = col[b] => a = b
C9_ReRank ==
    pc = "open" =>
        \A c \in {"quality", "value", "momentum", "qvm"} :
            NoTies(OutColumn(c)) => Rank(OutColumn(c), Universe) = OutColumn(c)

C9_Witness ==
    /\ pc = "open"
    /\ NoTies(OutColumn("qvm"))
    /\ Cardinality(Ranked(OutColumn("qvm"))) >= 3
    /\ Ranked(OutColumn("qvm")) /= Universe
    /\ ~NoTies(OutColumn("quality"))

\* C10: after the orders of a rebalance fill in full: if every long and every
\* holding could be traded, the holdings are exactly the longs (at most
\* TopN of them); in any case a long that was held is still held.
C10_Convergence ==
    pc = "filled" =>
        /\ (Selection \cup HeldBefore) \subseteq tradable =>
              /\ Held(positions) = Selection
              /\ Len(positions) <= TopN
        /\ (HeldBefore \cap Selection) \subseteq Held(positions)

C10_Witness ==
    /\ pc = "filled"
    /\ (Selection \cup HeldBefore) \subseteq tradable
    /\ Opens(orders) /= {}
    /\ Closes(orders) /= {}
    /\ HeldBefore \cap Selection /= {}

====
